---- MODULE Spec2Model ----
(***************************************************************************)
(* Auto Filename (obsidian-auto-filename): the filename derivation and the *)
(* debounced rename trigger of AutoFilename.renameFile, in the two         *)
(* variants the repository carries: src/src/main.ts ("main": one target    *)
(* folder with optional sub-folders) and src/unnamed/part_001              *)
(* ("part_001": a list of included folders, emoji stripping, root-aware    *)
(* parent path).                                                           *)
(*                                                                         *)
(* A JavaScript string is a sequence of UTF-16 code units; here a code     *)
(* unit is a one-element TLA+ string ("a", "\n") and the code units used   *)
(* outside ASCII are written "U+2705", "U+D83D", "U+DE00".                 *)
(***************************************************************************)
EXTENDS Integers, Sequences, FiniteSets, Bags, TLC

VARIABLES
    variant,          \* which source file runs: "main" or "part_001"
    settings,         \* this.settings (PluginSettings)
    vault,            \* the host's files: document -> [path, parent, content]
    onTimeout,        \* let onTimeout
    previousFile,     \* let previousFile (a path, or Undefined)
    timeout,          \* let timeout (handle of the timer armed last, or 0)
    timers,           \* pending setTimeout callbacks: [id, file, armedFor, left]
    ops,              \* renameFile invocations suspended at an await
    tempNewPaths,     \* let tempNewPaths
    renamedFileCount, \* let renamedFileCount
    batches,          \* "Rename all files" handlers: id -> [attempted, pending, failed, renamed, summary]
    notifs,           \* number of modify notifications delivered so far
    since,            \* document -> ticks since its last notification (capped)
    attempts,         \* document -> value of since at each content read started since its last notification
    probe             \* inputs and result of one call of a pure function

vars == <<variant, settings, vault, onTimeout, previousFile, timeout, timers, ops,
          tempNewPaths, renamedFileCount, batches, notifs, since, attempts, probe>>

----------------------------------------------------------------------------
(* JavaScript string primitives, on sequences of code units, 0-based as in *)
(* the source.                                                             *)

\* The code units String.prototype.trim and the regular expression \s treat
\* as white space, among those the model uses.
WhiteSpace == {" ", "\n", "\t"}

\* s.slice(a, b) for 0 <= a
Slice(s, a, b) == SubSeq(s, a + 1, b)

\* s.slice(a)
SliceFrom(s, a) == SubSeq(s, a + 1, Len(s))

\* s.startsWith(p)
StartsWith(s, p) == Len(s) >= Len(p) /\ SubSeq(s, 1, Len(p)) = p

RECURSIVE IndexOf(_, _, _)
\* s.indexOf(p, from): the first position >= from where p occurs, or -1
IndexOf(s, p, from) ==
    IF from + Len(p) > Len(s) THEN -1
    ELSE IF SubSeq(s, from + 1, from + Len(p)) = p THEN from
    ELSE IndexOf(s, p, from + 1)

\* s.includes(c) for a one-unit c
Includes(s, c) == \E i \in 1..Len(s) : s[i] = c

RECURSIVE TrimEnd(_)
\* s.trimEnd()
TrimEnd(s) ==
    IF s # <<>> /\ s[Len(s)] \in WhiteSpace THEN TrimEnd(SubSeq(s, 1, Len(s) - 1)) ELSE s

RECURSIVE TrimStart(_)
\* s.trimStart()
TrimStart(s) ==
    IF s # <<>> /\ s[1] \in WhiteSpace THEN TrimStart(Tail(s)) ELSE s

\* s.trim()
Trim(s) == TrimStart(TrimEnd(s))

RECURSIVE CollapseWhiteSpace(_)
\* s.replace(/\s+/g, " ")
CollapseWhiteSpace(s) ==
    IF s = <<>> THEN <<>>
    ELSE IF s[1] \in WhiteSpace
         THEN <<" ">> \o CollapseWhiteSpace(TrimStart(s))
         ELSE <<s[1]>> \o CollapseWhiteSpace(Tail(s))

LowerCase == <<"a","b","c","d","e","f","g","h","i","j","k","l","m",
               "n","o","p","q","r","s","t","u","v","w","x","y","z">>
UpperCase == <<"A","B","C","D","E","F","G","H","I","J","K","L","M",
               "N","O","P","Q","R","S","T","U","V","W","X","Y","Z">>

\* s.toUpperCase()
ToUpperCase(s) ==
    [i \in 1..Len(s) |->
        IF \E k \in 1..Len(LowerCase) : LowerCase[k] = s[i]
        THEN UpperCase[CHOOSE k \in 1..Len(LowerCase) : LowerCase[k] = s[i]]
        ELSE s[i]]

Digits == <<"0","1","2","3","4","5","6","7","8","9">>

RECURSIVE NumberToString(_)
\* the decimal digits a template literal writes for a counter
NumberToString(n) ==
    IF n < 10 THEN <<Digits[n + 1]>>
    ELSE NumberToString(n \div 10) \o <<Digits[(n % 10) + 1]>>

----------------------------------------------------------------------------
(* The derivation of the file name: renameFile from the content read to    *)
(* the 'Untitled' fallback.                                                *)

\* illegalChars without the slash: a derivation that lets a path separator through
illegalCharsNoSlash == <<"\\", ":", "*", "?", "\"", "<", ">", "|", "#", "^", "[", "]">>

\* const illegalChars
illegalChars == <<"\\", "/", ":", "*", "?", "\"", "<", ">", "|", "#", "^", "[", "]">>

\* const illegalNames
illegalNames ==
    {<<"C","O","N">>, <<"P","R","N">>, <<"A","U","X">>, <<"N","U","L">>}
    \cup {<<"C","O","M", Digits[k]>> : k \in 1..10}
    \cup {<<"L","P","T", Digits[k]>> : k \in 1..10}

\* "Untitled"
Untitled == <<"U","n","t","i","t","l","e","d">>

\* "..."
Ellipsis == <<".", ".", ".">>

\* if (this.settings.supportYAML && content.startsWith("---")) { ... }
SkipYAML(content, s) ==
    LET dashes == <<"-", "-", "-">>
        index  == IndexOf(content, dashes, 3)
    IN  IF s.supportYAML /\ StartsWith(content, dashes) /\ index # -1
        THEN TrimStart(SliceFrom(content, index + 3))
        ELSE content

\* headerArr[i], i = 0..5: i + 1 number signs and a space
headerArr(i) == [k \in 1..(i + 2) |-> IF k = i + 2 THEN " " ELSE "#"]

RECURSIVE HeaderLoop(_, _)
\* for (let i = 0; i < headerArr.length; i++) { if (content.startsWith(headerArr[i])) {...; break} }
HeaderLoop(content, i) ==
    IF i >= 6 THEN content
    ELSE IF StartsWith(content, headerArr(i))
         THEN LET index == IndexOf(content, <<"\n">>, 0)
              IN  IF index # -1 THEN Slice(content, i + 2, index) ELSE content
         ELSE HeaderLoop(content, i + 1)

\* the header step switched off: the content is the working text
UseHeaderOff(content, s) == content

\* if (this.settings.useHeader && content[0] == "#") { ... }
UseHeader(content, s) ==
    IF s.useHeader /\ content # <<>> /\ content[1] = "#"
    THEN HeaderLoop(content, 0)
    ELSE content

RECURSIVE ScanLoopNoTrim(_, _, _, _)
\* the scan without trimEnd() before the marker is appended
ScanLoopNoTrim(content, s, i, newFileName) ==
    IF i >= Len(content) THEN newFileName
    ELSE IF i >= s.charCount THEN newFileName \o Ellipsis
    ELSE LET char == content[i + 1]
         IN  IF char = "\n" /\ s.useFirstLine THEN newFileName \o Ellipsis
             ELSE IF ~Includes(illegalChars, char)
                  THEN ScanLoopNoTrim(content, s, i + 1, newFileName \o <<char>>)
                  ELSE ScanLoopNoTrim(content, s, i + 1, newFileName)

RECURSIVE ScanLoopAllLines(_, _, _, _)
\* the scan without the useFirstLine branch: a line break is kept like any
\* other character
ScanLoopAllLines(content, s, i, newFileName) ==
    IF i >= Len(content) THEN newFileName
    ELSE IF i >= s.charCount THEN TrimEnd(newFileName) \o Ellipsis
    ELSE LET char == content[i + 1]
         IN  IF ~Includes(illegalChars, char)
             THEN ScanLoopAllLines(content, s, i + 1, newFileName \o <<char>>)
             ELSE ScanLoopAllLines(content, s, i + 1, newFileName)

RECURSIVE ScanLoop(_, _, _, _)
\* for (let i = 0; i < content.length; i++) { ... }
ScanLoop(content, s, i, newFileName) ==
    IF i >= Len(content) THEN newFileName
    ELSE IF i >= s.charCount THEN TrimEnd(newFileName) \o Ellipsis
    ELSE LET char == content[i + 1]
         IN  IF char = "\n" /\ s.useFirstLine THEN TrimEnd(newFileName) \o Ellipsis
             ELSE IF ~Includes(illegalChars, char)
                  THEN ScanLoop(content, s, i + 1, newFileName \o <<char>>)
                  ELSE ScanLoop(content, s, i + 1, newFileName)

\* code units of the one-unit classes [\u2700-\u27BF] and [\u2011-\u26FF]
EmojiUnit == {"U+2705", "U+2014"}
\* \uD83C, \uD83D
HighSurrogate == {"U+D83C", "U+D83D"}
\* [\uDC00-\uDFFF]
LowSurrogate == {"U+DE00"}

RECURSIVE StripEmojis(_)
\* newFileName.replace(/([\u2700-\u27BF]|...|\uD83D[\uDC00-\uDFFF]|...)/g, "")
StripEmojis(name) ==
    IF name = <<>> THEN <<>>
    ELSE IF name[1] \in EmojiUnit THEN StripEmojis(Tail(name))
    ELSE IF name[1] \in HighSurrogate /\ Len(name) >= 2 /\ name[2] \in LowSurrogate
         THEN StripEmojis(SliceFrom(name, 2))
    ELSE <<name[1]>> \o StripEmojis(Tail(name))

\* if (!this.settings.includeEmojis) { ... }: part_001 only
RemoveEmojis(name, s, v) ==
    IF v = "part_001" /\ ~s.includeEmojis THEN StripEmojis(name) ELSE name

\* a single `if` in place of the while loop: one leading dot is dropped
RemoveLeadingDotsOnce(name) ==
    IF name # <<>> /\ name[1] = "." THEN Tail(name) ELSE name

RECURSIVE RemoveLeadingDots(_)
\* while (newFileName[0] == ".") { newFileName = newFileName.slice(1); }
RemoveLeadingDots(name) ==
    IF name # <<>> /\ name[1] = "." THEN RemoveLeadingDots(Tail(name)) ELSE name

\* the comparison without toUpperCase(): only the spelling in capitals falls back
FallbackExactCase(name) ==
    IF name = <<>> \/ name \in illegalNames THEN Untitled ELSE name

\* if (isIllegalName) newFileName = "Untitled";
Fallback(name) ==
    IF name = <<>> \/ ToUpperCase(name) \in illegalNames THEN Untitled ELSE name

\* newFileName after the leading-dot loop, from the working text that the
\* front-matter and header steps leave
BeforeFallback(working, s, v) ==
    LET scanned     == ScanLoop(working, s, 0, <<>>)
        noEmojis    == RemoveEmojis(scanned, s, v)
        normalized  == CollapseWhiteSpace(Trim(noEmojis))
    IN  RemoveLeadingDots(normalized)

\* a derivation that reads the coordinator: the number of renames so far
\* is written behind the name
DeriveWithCounter(content, s, v) ==
    Fallback(BeforeFallback(UseHeader(SkipYAML(content, s), s), s, v))
        \o NumberToString(renamedFileCount)

\* newFileName as renameFile has it when it builds newPath
Derive(content, s, v) ==
    Fallback(BeforeFallback(UseHeader(SkipYAML(content, s), s), s, v))

----------------------------------------------------------------------------
(* Eligibility.                                                            *)

\* "/": the path of the vault's root folder
Root == <<"/">>

\* path.split("/")[0]
FirstSegment(path) ==
    LET index == IndexOf(path, <<"/">>, 0)
    IN  IF index = -1 THEN path ELSE Slice(path, 0, index)

\* a check that accepts every file
inTargetFolderAny(parentPath, s, v) == TRUE

\* function inTargetFolder(file, settings), on file.parent.path
inTargetFolder(parentPath, s, v) ==
    IF v = "main"
    THEN IF s.targetFolder = <<>> THEN FALSE
         ELSE IF s.includeSubfolder
              THEN s.targetFolder = Root \/ FirstSegment(parentPath) = s.targetFolder
              ELSE parentPath = s.targetFolder
    ELSE IF Len(s.includeFolders) = 0 THEN FALSE
         ELSE \E k \in 1..Len(s.includeFolders) : s.includeFolders[k] = parentPath

----------------------------------------------------------------------------
(* The vault and the paths renameFile builds.                              *)

\* number of documents in the vault
NDocs == 2
Docs == 1..NDocs

\* ".md"
Md == <<".", "m", "d">>

\* the value of a variable that was never assigned
Undefined == <<"undefined">>

\* the result of renameFile's early return inside the duplicate checker
NoRename == <<>>

\* the host's path normalisation: a path never starts with a slash
RECURSIVE NormalizePath(_)
NormalizePath(path) ==
    IF path # <<>> /\ path[1] = "/" THEN NormalizePath(Tail(path)) ELSE path

\* the path the host gives a file named stem + ".md" in the folder parent
HostPath(parent, stem) ==
    IF parent = Root THEN stem \o Md ELSE parent \o <<"/">> \o stem \o Md

\* `${file.parent?.path}/` (main.ts), const parentPath (part_001)
parentPath(parent, v) ==
    IF v = "part_001" /\ parent = Root THEN <<>> ELSE parent \o <<"/">>

\* a candidate that leaves the counter out: every probe is of the same path
BuildPathNoCounter(parent, newFileName, counter, v) ==
    parentPath(parent, v) \o newFileName \o Md

\* the first candidate and the candidates with a counter
BuildPath(parent, newFileName, counter, v) ==
    IF counter = 1
    THEN parentPath(parent, v) \o newFileName \o Md
    ELSE parentPath(parent, v) \o newFileName \o <<" ", "(">>
             \o NumberToString(counter) \o <<")">> \o Md

\* this.app.vault.getAbstractFileByPath(path) != null
FileExists(path, vlt) == \E d \in DOMAIN vlt : vlt[d].path = path

\* tempNewPaths.includes(path)
Reserved(path, temp) == \E k \in 1..Len(temp) : temp[k] = path

RECURSIVE DuplicateLoop(_, _, _, _, _, _)
\* let counter = 1; while (fileExists || tempNewPaths.includes(newPath)) { ... }
DuplicateLoop(file, newFileName, counter, vlt, temp, v) ==
    LET newPath == BuildPath(vlt[file].parent, newFileName, counter, v)
    IN  IF FileExists(newPath, vlt) \/ Reserved(newPath, temp)
        THEN IF vlt[file].path = newPath THEN NoRename
             ELSE DuplicateLoop(file, newFileName, counter + 1, vlt, temp, v)
        ELSE newPath

----------------------------------------------------------------------------
(* The rename coordinator: the modify handler, the debounce timer, the     *)
(* two awaits of renameFile and the "Rename all files" button.             *)

\* bounds of the exploration: user events (modifications and clicks on
\* "Rename all files") in one run, and clicks among them
MaxEvents == 3
MaxBatches == 2

Variants == {"main", "part_001"}
\* the folders the explored vaults watch: the vault root and a folder "f"
TargetFolders == {Root, <<"f">>}
\* checkInterval in ticks of the model's clock: 0 (no debounce) and 2
CheckIntervals == {0, 2}
\* what a modification can leave in a document
Contents == {<<"a">>, <<"b">>}

\* DEFAULT_SETTINGS.charCount
DefaultCharCount == 50

\* the names of the documents of the initial vault: a, b, a (2), a (3), ...
InitialStem(d) ==
    IF d = 1 THEN <<"a">>
    ELSE IF d = 2 THEN <<"b">>
    ELSE <<"a", " ", "(">> \o NumberToString(d - 1) \o <<")">>

\* DEFAULT_SETTINGS, with the watched folder and the interval of the run
InitialSettings(tf, interval) ==
    [targetFolder |-> tf, includeSubfolder |-> FALSE, includeFolders |-> <<tf>>,
     useHeader |-> TRUE, useFirstLine |-> FALSE, supportYAML |-> TRUE,
     includeEmojis |-> TRUE, charCount |-> DefaultCharCount, checkInterval |-> interval]

NoProbe == [fn |-> "none"]

\* the module-level variables as the file's top sets them
InitCoordinator ==
    /\ onTimeout = TRUE
    /\ previousFile = Undefined
    /\ timeout = 0
    /\ timers = {}
    /\ ops = EmptyBag
    /\ tempNewPaths = <<>>
    /\ renamedFileCount = 0
    /\ batches = <<>>
    /\ notifs = 0
    /\ since = [d \in Docs |-> 0]
    /\ attempts = [d \in Docs |-> <<>>]

\* the plugin is loaded on a vault whose documents hold the contents cs
InitWith(cs) ==
    /\ variant \in Variants
    /\ \E tf \in TargetFolders, interval \in CheckIntervals :
          /\ settings = InitialSettings(tf, interval)
          /\ vault = [d \in Docs |->
                        [path |-> HostPath(tf, InitialStem(d)), parent |-> tf,
                         content |-> cs[d]]]
    /\ InitCoordinator
    /\ probe = NoProbe

Init == InitWith([d \in Docs |-> <<"a">>])

\* a renameFile invocation suspended at `await cachedRead` ("read") or at
\* `await fileManager.renameFile` ("rename")
ReadOp(file, noDelay, batch) ==
    [file |-> file, noDelay |-> noDelay, batch |-> batch, pc |-> "read",
     content |-> <<>>, newFileName |-> <<>>, newPath |-> <<>>]

Eligible(d) == inTargetFolder(vault[d].parent, settings, variant)

\* clearTimeout(timeout)
ClearTimeout(tms, handle) == {t \in tms : t.id # handle}

\* if (previousFile == file.path) { clearTimeout(timeout); }
Debounce(file, tms, prev, handle) ==
    IF prev = vault[file].path THEN ClearTimeout(tms, handle) ELSE tms

\* vault.on("modify"): the file's content is c; renameFile(file, noDelay) up to
\* its return or its first await
Modify(d, c) ==
    /\ notifs + Len(batches) < MaxEvents
    /\ notifs' = notifs + 1
    /\ vault' = [vault EXCEPT ![d].content = c]
    /\ since' = [since EXCEPT ![d] = 0]
    /\ LET noDelay == settings.checkInterval = 0
       IN  IF ~Eligible(d)
           THEN /\ attempts' = [attempts EXCEPT ![d] = <<>>]
                /\ UNCHANGED <<onTimeout, previousFile, timeout, timers, ops>>
           ELSE IF ~noDelay /\ onTimeout
           THEN /\ timers' = Debounce(d, timers, previousFile, timeout)
                               \cup {[id |-> notifs + 1, file |-> d,
                                      armedFor |-> vault[d].path,
                                      left |-> settings.checkInterval]}
                /\ previousFile' = vault[d].path
                /\ timeout' = notifs + 1
                /\ attempts' = [attempts EXCEPT ![d] = <<>>]
                /\ UNCHANGED <<onTimeout, ops>>
           ELSE /\ onTimeout' = IF noDelay THEN onTimeout ELSE TRUE
                /\ ops' = ops (+) SetToBag({ReadOp(d, noDelay, 0)})
                /\ attempts' = [attempts EXCEPT ![d] = <<0>>]
                /\ UNCHANGED <<previousFile, timeout, timers>>
    /\ UNCHANGED <<variant, settings, tempNewPaths, renamedFileCount, batches, probe>>

\* the clock advances by one tick; a timer that is due fires first
Tick ==
    /\ timers # {}
    /\ \A t \in timers : t.left > 0
    /\ timers' = {[t EXCEPT !.left = @ - 1] : t \in timers}
    /\ since' = [d \in Docs |->
                   IF since[d] < settings.checkInterval THEN since[d] + 1 ELSE since[d]]
    /\ UNCHANGED <<variant, settings, vault, onTimeout, previousFile, timeout, ops,
                   tempNewPaths, renamedFileCount, batches, notifs, attempts,
                   probe>>

\* the setTimeout callback: onTimeout = false; this.renameFile(file);
TimerFire(t) ==
    /\ t \in timers
    /\ t.left = 0
    /\ timers' = timers \ {t}
    /\ IF Eligible(t.file)
       THEN /\ onTimeout' = TRUE
            /\ ops' = ops (+) SetToBag({ReadOp(t.file, FALSE, 0)})
            /\ attempts' = [attempts EXCEPT ![t.file] = Append(@, since[t.file])]
       ELSE /\ onTimeout' = FALSE
            /\ UNCHANGED <<ops, attempts>>
    /\ UNCHANGED <<variant, settings, vault, previousFile, timeout, tempNewPaths,
                   renamedFileCount, batches, notifs, since, probe>>

\* a summary that is shown as soon as one call of the batch has settled
SettleBatchEarly(b, ok, count, won) ==
    IF b = 0 THEN batches
    ELSE [batches EXCEPT ![b] =
            [attempted |-> @.attempted,
             pending   |-> @.pending - 1,
             failed    |-> @.failed \/ ~ok,
             renamed   |-> @.renamed + won,
             summary   |-> IF ~@.failed /\ ok THEN count ELSE @.summary]]

\* the promise of a renameFile call of batch b settles, after a rename of its
\* own (won = 1) or without one; when it is the last one and none was
\* rejected, Promise.all resolves and the Notice shows count
SettleBatch(b, ok, count, won) ==
    IF b = 0 THEN batches
    ELSE [batches EXCEPT ![b] =
            [attempted |-> @.attempted,
             pending   |-> @.pending - 1,
             failed    |-> @.failed \/ ~ok,
             renamed   |-> @.renamed + won,
             summary   |-> IF @.pending = 1 /\ ~@.failed /\ ok THEN count ELSE @.summary]]

\* cachedRead resolves: renameFile runs from the content to the rename it awaits
ReadDone(o) ==
    /\ BagIn(o, ops)
    /\ o.pc = "read"
    /\ LET newFileName == Derive(vault[o.file].content, settings, variant)
           newPath     == DuplicateLoop(o.file, newFileName, 1, vault, tempNewPaths, variant)
       IN  IF newPath = NoRename
           THEN /\ ops' = ops (-) SetToBag({o})
                /\ batches' = SettleBatch(o.batch, TRUE, renamedFileCount, 0)
                /\ UNCHANGED tempNewPaths
           ELSE /\ ops' = (ops (-) SetToBag({o}))
                             (+) SetToBag({[o EXCEPT !.pc = "rename",
                                                      !.content = vault[o.file].content,
                                                      !.newFileName = newFileName,
                                                      !.newPath = newPath]})
                /\ tempNewPaths' = IF o.noDelay THEN Append(tempNewPaths, newPath)
                                   ELSE tempNewPaths
                /\ UNCHANGED batches
    /\ UNCHANGED <<variant, settings, vault, onTimeout, previousFile, timeout, timers,
                   renamedFileCount, notifs, since, attempts, probe>>

\* the host moves the file: fileManager.renameFile resolves; renamedFileCount += 1
RenameDone(o) ==
    /\ BagIn(o, ops)
    /\ o.pc = "rename"
    /\ \A d \in Docs : d # o.file => vault[d].path # NormalizePath(o.newPath)
    /\ vault' = [vault EXCEPT ![o.file].path = NormalizePath(o.newPath)]
    /\ renamedFileCount' = renamedFileCount + 1
    /\ ops' = ops (-) SetToBag({o})
    /\ batches' = SettleBatch(o.batch, TRUE, renamedFileCount + 1, 1)
    /\ UNCHANGED <<variant, settings, onTimeout, previousFile, timeout, timers,
                   tempNewPaths, notifs, since, attempts, probe>>

\* a rejection that also abandons the other invocations of the batch
RenameFailAbortsBatch(o) ==
    /\ BagIn(o, ops)
    /\ o.pc = "rename"
    /\ ops' = [q \in {x \in BagToSet(ops) : o.batch = 0 \/ x.batch # o.batch} \cup
                      {x \in BagToSet(ops) : o.batch = 0 /\ x # o} |-> ops[q]]
    /\ batches' = SettleBatch(o.batch, FALSE, renamedFileCount, 0)
    /\ UNCHANGED <<variant, settings, vault, onTimeout, previousFile, timeout, timers,
                   tempNewPaths, renamedFileCount, notifs, since, attempts,
                   probe>>

\* a rejection after which the path reserved for the rename is given back
RenameFailRollsBack(o) ==
    /\ BagIn(o, ops)
    /\ o.pc = "rename"
    /\ ops' = ops (-) SetToBag({o})
    /\ batches' = SettleBatch(o.batch, FALSE, renamedFileCount, 0)
    /\ tempNewPaths' = SelectSeq(tempNewPaths, LAMBDA p : p # o.newPath)
    /\ UNCHANGED <<variant, settings, vault, onTimeout, previousFile, timeout, timers,
                   renamedFileCount, notifs, since, attempts, probe>>

\* the host refuses: fileManager.renameFile rejects and renameFile throws
RenameFail(o) ==
    /\ BagIn(o, ops)
    /\ o.pc = "rename"
    /\ ops' = ops (-) SetToBag({o})
    /\ batches' = SettleBatch(o.batch, FALSE, renamedFileCount, 0)
    /\ UNCHANGED <<variant, settings, vault, onTimeout, previousFile, timeout, timers,
                   tempNewPaths, renamedFileCount, notifs, since, attempts,
                   probe>>

\* filesToRename: the markdown files inTargetFolder accepts
FilesToRename == {d \in Docs : Eligible(d)}

\* a click that also cancels the pending debounce timers
RenameAllCancelsTimers ==
    /\ Len(batches) < MaxBatches
    /\ notifs + Len(batches) < MaxEvents
    /\ renamedFileCount' = 0
    /\ tempNewPaths' = <<>>
    /\ timers' = {}
    /\ ops' = ops (+) [o \in {ReadOp(d, TRUE, Len(batches) + 1) : d \in FilesToRename} |-> 1]
    /\ batches' = Append(batches,
                     [attempted |-> Cardinality(FilesToRename),
                      pending   |-> Cardinality(FilesToRename),
                      failed    |-> FALSE,
                      renamed   |-> 0,
                      summary   |-> IF FilesToRename = {} THEN 0 ELSE -1])
    /\ UNCHANGED <<variant, settings, vault, onTimeout, previousFile, timeout,
                   notifs, since, attempts, probe>>

\* the "Rename all files" button: onClick up to `await Promise.all`
RenameAll ==
    /\ Len(batches) < MaxBatches
    /\ notifs + Len(batches) < MaxEvents
    /\ renamedFileCount' = 0
    /\ tempNewPaths' = <<>>
    /\ ops' = ops (+) [o \in {ReadOp(d, TRUE, Len(batches) + 1) : d \in FilesToRename} |-> 1]
    /\ batches' = Append(batches,
                     [attempted |-> Cardinality(FilesToRename),
                      pending   |-> Cardinality(FilesToRename),
                      failed    |-> FALSE,
                      renamed   |-> 0,
                      summary   |-> IF FilesToRename = {} THEN 0 ELSE -1])
    /\ UNCHANGED <<variant, settings, vault, onTimeout, previousFile, timeout, timers,
                   notifs, since, attempts, probe>>

Next ==
    \/ \E d \in Docs, c \in Contents : Modify(d, c)
    \/ Tick
    \/ \E t \in timers : TimerFire(t)
    \/ \E o \in BagToSet(ops) : ReadDone(o)
    \/ \E o \in BagToSet(ops) : RenameDone(o)
    \/ \E o \in BagToSet(ops) : RenameFail(o)
    \/ RenameAll

Spec == Init /\ [][Next]_vars

\* the automatic trigger alone: no click on "Rename all files"
NextDebounce ==
    \/ \E d \in Docs, c \in Contents : Modify(d, c)
    \/ Tick
    \/ \E t \in timers : TimerFire(t)
    \/ \E o \in BagToSet(ops) : ReadDone(o)
    \/ \E o \in BagToSet(ops) : RenameDone(o)
    \/ \E o \in BagToSet(ops) : RenameFail(o)

DebounceSpec == Init /\ [][NextDebounce]_vars

\* notifications for one document only: the trigger with a single note edited
NextOneDocument ==
    \/ \E c \in Contents : Modify(1, c)
    \/ Tick
    \/ \E t \in timers : TimerFire(t)
    \/ \E o \in BagToSet(ops) : ReadDone(o)
    \/ \E o \in BagToSet(ops) : RenameDone(o)
    \/ \E o \in BagToSet(ops) : RenameFail(o)

OneDocumentSpec == Init /\ [][NextOneDocument]_vars

\* the vaults that watch the folder "f"
InitNested == Init /\ settings.targetFolder = <<"f">>

NestedSpec == InitNested /\ [][Next]_vars

\* clicks on "Rename all files" and nothing else
NextBatch ==
    \/ RenameAll
    \/ \E o \in BagToSet(ops) : ReadDone(o)
    \/ \E o \in BagToSet(ops) : RenameDone(o)
    \/ \E o \in BagToSet(ops) : RenameFail(o)

\* the vaults a batch can meet: each document holds any of the contents
InitBatch == \E cs \in [Docs -> Contents] : InitWith(cs)

BatchSpec == InitBatch /\ [][NextBatch]_vars

\* a vault whose notes were named by hand: n1.md, n2.md, ...
UnnamedStem(d) == <<"n">> \o NumberToString(d)

\* the plugin is loaded on such a vault; each document holds any of the contents
InitUnnamed ==
    /\ variant \in Variants
    /\ \E tf \in TargetFolders, interval \in CheckIntervals, cs \in [Docs -> Contents] :
          /\ settings = InitialSettings(tf, interval)
          /\ vault = [d \in Docs |->
                        [path |-> HostPath(tf, UnnamedStem(d)), parent |-> tf,
                         content |-> cs[d]]]
    /\ InitCoordinator
    /\ probe = NoProbe

UnnamedSpec == InitUnnamed /\ [][NextBatch]_vars

\* the watch settings of a vault with a note outside: none, or the folder "f"
WatchSettings == {<<>>, <<"f">>}

\* the folder of each document of that vault: the first in "f", the others in "g"
FolderOf(d) == IF d = 1 THEN <<"f">> ELSE <<"g">>

\* the plugin is loaded on a vault with notes in "f" and in "g"
InitOutside ==
    /\ variant \in Variants
    /\ \E w \in WatchSettings, interval \in CheckIntervals :
          settings = [InitialSettings(w, interval) EXCEPT
                         !.includeFolders = IF w = <<>> THEN <<>> ELSE <<w>>]
    /\ vault = [d \in Docs |->
                  [path |-> HostPath(FolderOf(d), UnnamedStem(d)), parent |-> FolderOf(d),
                   content |-> <<"a">>]]
    /\ InitCoordinator
    /\ probe = NoProbe

OutsideSpec == InitOutside /\ [][Next]_vars

\* edits in a hand-named vault whose folder "f" is watched
InitUnnamedNested == InitUnnamed /\ settings.targetFolder = <<"f">>

UnnamedNestedSpec == InitUnnamedNested /\ [][NextDebounce]_vars

\* the folder paths typed in the "Target folder" field ("Include" in part_001)
FolderTexts == {<<>>, <<"f">>, <<"g">>}

\* the onChange callback of the "Target folder" text field; in part_001 that
\* of the "Include" text area, on a text without line break
EditTargetFolder(value) ==
    /\ settings' = IF variant = "main"
                   THEN [settings EXCEPT !.targetFolder = value]
                   ELSE [settings EXCEPT !.includeFolders = <<value>>]
    /\ settings' # settings
    /\ UNCHANGED <<variant, vault, onTimeout, previousFile, timeout, timers, ops,
                   tempNewPaths, renamedFileCount, batches, notifs, since, attempts,
                   probe>>

\* edits of notes in "f" and "g" while the watched folder is changed
NextRetarget ==
    \/ \E d \in Docs, c \in Contents : Modify(d, c)
    \/ Tick
    \/ \E t \in timers : TimerFire(t)
    \/ \E o \in BagToSet(ops) : ReadDone(o)
    \/ \E o \in BagToSet(ops) : RenameDone(o)
    \/ \E o \in BagToSet(ops) : RenameFail(o)
    \/ \E value \in FolderTexts : EditTargetFolder(value)

RetargetSpec == InitOutside /\ [][NextRetarget]_vars

----------------------------------------------------------------------------
(* The derivation on its own: contents built from a few tokens, every      *)
(* combination of the switches, the smallest character count the settings  *)
(* tab accepts.                                                            *)

\* number of tokens in an explored content
MaxTokens == 3

\* the lower limit of "Character count": if (numVal >= 10 && numVal <= 100)
MinCharCount == 10

\* the upper limit of "Character count"
MaxCharCount == 100

\* nine letters and a space: MinCharCount code units
Pad == <<"a", "a", "a", "a", "a", "a", "a", "a", "a", " ">>

Tokens ==
    {<<"a">>, <<" ">>, <<"\n">>, <<".">>, <<"#", " ">>, <<"/">>, <<"-", "-", "-">>,
     Pad, <<"U+2705">>, <<"U+D83D", "U+DE00">>, <<"c", "o", "N">>, <<"L", "P", "T", "0">>}

RECURSIVE ContentsOf(_)
\* the contents of at most n tokens
ContentsOf(n) ==
    IF n = 0 THEN {<<>>}
    ELSE LET shorter == ContentsOf(n - 1)
         IN  shorter \cup {c \o t : c \in shorter, t \in Tokens}

\* the settings a derivation reads; main.ts has no includeEmojis and keeps them
DeriveSettings(v) ==
    {[InitialSettings(<<"f">>, 0) EXCEPT !.useHeader = h, !.useFirstLine = l,
                                         !.supportYAML = y, !.includeEmojis = e,
                                         !.charCount = MinCharCount] :
        h \in BOOLEAN, l \in BOOLEAN, y \in BOOLEAN,
        e \in IF v = "main" THEN {TRUE} ELSE BOOLEAN}

\* the coordinator is idle while a pure function is explored
Idle ==
    /\ vault = <<>>
    /\ onTimeout = TRUE
    /\ previousFile = Undefined
    /\ timeout = 0
    /\ timers = {}
    /\ ops = EmptyBag
    /\ tempNewPaths = <<>>
    /\ renamedFileCount = 0
    /\ batches = <<>>
    /\ notifs = 0
    /\ since = <<>>
    /\ attempts = <<>>

coordinatorVars ==
    <<vault, onTimeout, previousFile, timeout, timers, ops, tempNewPaths,
      renamedFileCount, batches, notifs, since, attempts>>

InitDerive ==
    /\ variant \in Variants
    /\ settings \in DeriveSettings(variant)
    /\ \E c \in ContentsOf(MaxTokens) :
          probe = [fn |-> "derive", content |-> c, done |-> FALSE, newFileName |-> <<>>]
    /\ Idle

\* renameFile from `let content = await cachedRead(file)` to the fallback
DeriveCall ==
    /\ probe.fn = "derive"
    /\ ~probe.done
    /\ probe' = [probe EXCEPT !.done = TRUE,
                              !.newFileName = Derive(probe.content, settings, variant)]
    /\ UNCHANGED <<variant, settings, coordinatorVars>>

DeriveSpec == InitDerive /\ [][DeriveCall]_vars

----------------------------------------------------------------------------
(* The derivation on contents written line by line.                        *)

\* number of lines of a content
MaxLines == 3

\* the lines: a delimiter, text, text that holds three hyphens, headings of
\* one, two and seven number signs, a tag, an empty line
LineSet ==
    {<<"-", "-", "-">>, <<"a">>, <<"a", "-", "-", "-">>, <<"#", " ", "a">>,
     <<"#", "#", " ", "b">>, <<"#", "#", "#", "#", "#", "#", "#", " ", "a">>,
     <<"#", "a">>, <<>>}

RECURSIVE LinesOf(_)
\* the sequences of 1 to n lines
LinesOf(n) ==
    IF n = 1 THEN {<<l>> : l \in LineSet}
    ELSE LET shorter == LinesOf(n - 1)
         IN  shorter \cup {Append(ls, l) : ls \in {x \in shorter : Len(x) = n - 1},
                                            l \in LineSet}

RECURSIVE JoinLines(_)
\* the content whose lines are ls: a line break between two lines
JoinLines(ls) ==
    IF ls = <<>> THEN <<>>
    ELSE IF Len(ls) = 1 THEN ls[1]
    ELSE ls[1] \o <<"\n">> \o JoinLines(Tail(ls))

InitLines ==
    /\ variant \in Variants
    /\ settings \in DeriveSettings(variant)
    /\ \E ls \in LinesOf(MaxLines) :
          probe = [fn |-> "derive", lines |-> ls, content |-> JoinLines(ls),
                   done |-> FALSE, newFileName |-> <<>>]
    /\ Idle

LinesSpec == InitLines /\ [][DeriveCall]_vars

----------------------------------------------------------------------------
(* inTargetFolder on its own.                                              *)

\* folder paths as the host writes them
Folders ==
    {Root, <<"a">>, <<"a", "/", "b">>, <<"a", "/", "b", "/", "c">>, <<"a", "b">>, <<"b">>}

\* the watch settings explored: main.ts has targetFolder and includeSubfolder,
\* part_001 has includeFolders
EligSettings(v) ==
    IF v = "main"
    THEN {[InitialSettings(tf, 0) EXCEPT !.includeSubfolder = sub, !.includeFolders = <<>>] :
            tf \in Folders \cup {<<>>}, sub \in BOOLEAN}
    ELSE {[InitialSettings(<<>>, 0) EXCEPT !.includeFolders = fs] :
            fs \in {<<>>} \cup {<<f>> : f \in Folders}
                      \cup {<<f, g>> : f \in Folders, g \in Folders}}

InitElig ==
    /\ variant \in Variants
    /\ settings \in EligSettings(variant)
    /\ \E p \in Folders :
          probe = [fn |-> "inTargetFolder", parent |-> p, done |-> FALSE, result |-> FALSE]
    /\ Idle

\* one call inTargetFolder(file, settings)
EligCall ==
    /\ probe.fn = "inTargetFolder"
    /\ ~probe.done
    /\ probe' = [probe EXCEPT !.done = TRUE,
                              !.result = inTargetFolder(probe.parent, settings, variant)]
    /\ UNCHANGED <<variant, settings, coordinatorVars>>

EligSpec == InitElig /\ [][EligCall]_vars

----------------------------------------------------------------------------
(* The duplicate checker of renameFile, one probe at a time.               *)

\* the largest counter the exploration follows
MaxCounter == 6

\* number of paths tempNewPaths holds when the checker starts
MaxReserved == 2

\* the names the files of the vault can have: the stem, the stem with a
\* counter, another stem
StemsInVault == {<<"a">>, <<"a", " ", "(", "2", ")">>, <<"a", " ", "(", "3", ")">>, <<"b">>}

\* the contents tempNewPaths can have: paths renameFile builds for the stem
ReservedLists(parent, v) ==
    UNION {[1..n -> {BuildPath(parent, <<"a">>, c, v) : c \in 1..3}] : n \in 0..MaxReserved}

\* renameFile has derived the stem 'a' for a file and enters the duplicate checker
InitDuplicate ==
    /\ variant \in Variants
    /\ \E tf \in TargetFolders, names \in [Docs -> StemsInVault] :
          /\ \A d, e \in Docs : d # e => names[d] # names[e]
          /\ settings = InitialSettings(tf, 0)
          /\ vault = [d \in Docs |->
                        [path |-> HostPath(tf, names[d]), parent |-> tf, content |-> <<"a">>]]
          /\ tempNewPaths \in ReservedLists(tf, variant)
          /\ \E file \in Docs :
                probe = [fn |-> "duplicateChecker", file |-> file, newFileName |-> <<"a">>,
                         counter |-> 1,
                         newPath |-> BuildPath(tf, <<"a">>, 1, variant),
                         done |-> FALSE, result |-> NoRename]
    /\ onTimeout = TRUE
    /\ previousFile = Undefined
    /\ timeout = 0
    /\ timers = {}
    /\ ops = EmptyBag
    /\ renamedFileCount = 0
    /\ batches = <<>>
    /\ notifs = 0
    /\ since = [d \in Docs |-> 0]
    /\ attempts = [d \in Docs |-> <<>>]

\* one evaluation of the while condition and, when it holds, one pass of the body
DuplicateStep ==
    /\ probe.fn = "duplicateChecker"
    /\ ~probe.done
    /\ IF FileExists(probe.newPath, vault) \/ Reserved(probe.newPath, tempNewPaths)
       THEN IF vault[probe.file].path = probe.newPath
            THEN probe' = [probe EXCEPT !.done = TRUE, !.result = NoRename]
            ELSE /\ probe.counter < MaxCounter
                 /\ probe' = [probe EXCEPT
                                 !.counter = @ + 1,
                                 !.newPath = BuildPath(vault[probe.file].parent,
                                                       probe.newFileName,
                                                       probe.counter + 1, variant)]
       ELSE probe' = [probe EXCEPT !.done = TRUE, !.result = probe.newPath]
    /\ UNCHANGED <<variant, settings, vault, onTimeout, previousFile, timeout, timers, ops,
                   tempNewPaths, renamedFileCount, batches, notifs, since, attempts>>

DuplicateSpec == InitDuplicate /\ [][DuplicateStep]_vars

-----------------------------------------------------------------------------
(* The "Character count" field of the settings tab.                        *)

\* length of the text typed in the field
MaxText == 3

\* the characters typed: digits, a sign, a letter, a blank
TextChars == {"0", "1", "9", "-", "a", " "}

Texts == UNION {[1..n -> TextChars] : n \in 0..MaxText}

\* a JavaScript number: NaN, or the integer num
NaN == [nan |-> TRUE, num |-> 0]

Num(n) == [nan |-> FALSE, num |-> n]

DecimalDigits == {Digits[k] : k \in 1..Len(Digits)}

DigitValue(c) == (CHOOSE k \in 1..Len(Digits) : Digits[k] = c) - 1

RECURSIVE DigitsToNumber(_)
\* the value of a non-empty run of decimal digits
DigitsToNumber(t) ==
    IF Len(t) = 1 THEN DigitValue(t[1])
    ELSE 10 * DigitsToNumber(SubSeq(t, 1, Len(t) - 1)) + DigitValue(t[Len(t)])

\* Number(value) on a string: surrounding white space is dropped, the empty
\* text is 0, an optionally signed run of decimal digits is its value, and
\* any other text is NaN
Number(value) ==
    LET t == Trim(value)
        signed == Len(t) > 0 /\ t[1] = "-"
        body == IF signed THEN SliceFrom(t, 1) ELSE t
    IN  IF t = <<>> THEN Num(0)
        ELSE IF body # <<>> /\ \A k \in 1..Len(body) : body[k] \in DecimalDigits
             THEN (IF signed THEN Num(0 - DigitsToNumber(body)) ELSE Num(DigitsToNumber(body)))
        ELSE NaN

\* a check of the lower end only
AboveCharCountMin(numVal) == ~numVal.nan /\ numVal.num >= MinCharCount

\* numVal >= 10 && numVal <= 100: both comparisons are false on NaN
InCharCountRange(numVal) ==
    /\ ~numVal.nan
    /\ numVal.num >= MinCharCount
    /\ numVal.num <= MaxCharCount

InitSettingsTab ==
    /\ variant \in Variants
    /\ settings = InitialSettings(Root, 2)
    /\ probe = [fn |-> "charCount", value |-> NumberToString(DefaultCharCount), saved |-> FALSE]
    /\ Idle

\* the onChange callback of the "Character count" text field
EditCharCount(value) ==
    /\ probe.fn = "charCount"
    /\ LET numVal == Number(value)
       IN  IF InCharCountRange(numVal)
           THEN /\ settings' = [settings EXCEPT !.charCount = numVal.num]
                /\ probe' = [probe EXCEPT !.value = value, !.saved = TRUE]
           ELSE /\ settings' = settings
                /\ probe' = [probe EXCEPT !.value = value, !.saved = FALSE]
    /\ UNCHANGED <<variant, coordinatorVars>>

SettingsSpec == InitSettingsTab /\ [][\E value \in Texts : EditCharCount(value)]_vars

----------------------------------------------------------------------------
(* Claims about inTargetFolder and about the derived stem.                 *)

\* the watched containers and the sub-container switch of the settings
Watched(s, v) ==
    IF v = "main" THEN (IF s.targetFolder = <<>> THEN {} ELSE {s.targetFolder})
    ELSE {s.includeFolders[k] : k \in 1..Len(s.includeFolders)}

SubContainers(s, v) == v = "main" /\ s.includeSubfolder

\* w is a proper ancestor of p: the root, or a prefix of p that ends where a
\* segment of p ends
SegmentPrefix(w, p) == p # w /\ (w = Root \/ StartsWith(p, w \o <<"/">>))

\* C8: inTargetFolder is true exactly when the watch setting is not empty and
\* the document's container is a watched container, or sub-container
\* inclusion is on and a watched container is a segment-aligned prefix of it,
\* for watched containers of any depth and with inclusion on or off.
C8_EligibleExactly ==
    (probe.fn = "inTargetFolder" /\ probe.done) =>
        (probe.result <=>
            \E w \in Watched(settings, variant) :
                \/ probe.parent = w
                \/ SubContainers(settings, variant) /\ SegmentPrefix(w, probe.parent))

\* the characters the claim lists: \ / : * ? " < > | # ^ [ ]
ClaimIllegalSet == {"\\", "/", ":", "*", "?", "\"", "<", ">", "|", "#", "^", "[", "]"}

\* C9: for every content and configuration the derived stem contains none of
\* the characters \ / : * ? " < > | # ^ [ ].
C9_NoIllegalChar ==
    (probe.fn = "derive" /\ probe.done) =>
        \A i \in 1..Len(probe.newFileName) : probe.newFileName[i] \notin ClaimIllegalSet

\* a derivation that met an illegal character, was cut at charCount and
\* stripped an emoji
C9_Witness ==
    /\ probe.fn = "derive" /\ probe.done
    /\ variant = "part_001" /\ ~settings.includeEmojis
    /\ probe.content = <<"/", "U+2705">> \o Pad
    /\ probe.newFileName = <<"a", "a", "a", "a", "a", "a", "a", "a">> \o Ellipsis

\* C10: for every content and configuration the derived stem does not start
\* with a dot, also when the ellipsis was appended to an empty buffer.
C10_NoLeadingDot ==
    (probe.fn = "derive" /\ probe.done) =>
        (probe.newFileName # <<>> /\ probe.newFileName[1] # ".")

\* the ellipsis appended to an empty buffer: the first line is empty and only
\* the first line is used
C10_Witness ==
    /\ probe.fn = "derive" /\ probe.done
    /\ settings.useFirstLine
    /\ probe.content = <<"\n", "a">>
    /\ probe.newFileName = Untitled

\* the reserved device names of the claim, in capitals
ClaimReservedNames ==
    {<<"C","O","N">>, <<"P","R","N">>, <<"A","U","X">>, <<"N","U","L">>}
    \cup {<<"C","O","M", d>> : d \in {"0","1","2","3","4","5","6","7","8","9"}}
    \cup {<<"L","P","T", d>> : d \in {"0","1","2","3","4","5","6","7","8","9"}}

\* one code unit equals the other when letter case is ignored
SameLetter(a, b) ==
    \/ a = b
    \/ \E k \in 1..Len(LowerCase) : {a, b} = {LowerCase[k], UpperCase[k]}

\* name is a reserved device name in some letter case
IsReservedName(name) ==
    \E r \in ClaimReservedNames :
        Len(r) = Len(name) /\ \A i \in 1..Len(r) : SameLetter(r[i], name[i])

\* C11: the derived stem is 'Untitled' whenever the result after normalization
\* and leading-dot removal is empty or is, ignoring case, a reserved device
\* name; the stem is never empty and never a reserved name in any letter case.
C11_UntitledFallback ==
    (probe.fn = "derive" /\ probe.done) =>
        LET working == UseHeader(SkipYAML(probe.content, settings), settings)
            result  == BeforeFallback(working, settings, variant)
        IN  /\ (result = <<>> \/ IsReservedName(result)) => probe.newFileName = Untitled
            /\ probe.newFileName # <<>>
            /\ ~IsReservedName(probe.newFileName)

\* a reserved name in mixed case, behind a blank and a dot, falls back
C11_Witness ==
    /\ probe.fn = "derive" /\ probe.done
    /\ probe.content = <<" ", ".", "c", "o", "N">>
    /\ probe.newFileName = Untitled

\* s without the white space at its end
WithoutTrailingBlanks(s) ==
    LET last == CHOOSE k \in 0..Len(s) :
                    /\ k = 0 \/ s[k] \notin WhiteSpace
                    /\ \A j \in (k + 1)..Len(s) : s[j] \in WhiteSpace
    IN  SubSeq(s, 1, last)

\* the content is longer than charCount and its first charCount characters
\* hold no line break and no illegal character; it has no front matter
PlainAndLong(content, s) ==
    /\ Len(content) > s.charCount
    /\ \A i \in 1..s.charCount : content[i] # "\n" /\ content[i] \notin ClaimIllegalSet
    /\ ~StartsWith(content, <<"-", "-", "-">>)

\* nothing but the truncation can write a dot at the end of the stem
NoOtherEllipsis(content, s) ==
    /\ \A i \in 1..Len(content) : content[i] # "."
    /\ ~(s.useFirstLine /\ \E i \in 1..Len(content) : content[i] = "\n")

\* the stem ends with the ellipsis marker
EndsWithEllipsis(name) ==
    Len(name) >= 3 /\ SubSeq(name, Len(name) - 2, Len(name)) = <<".", ".", ".">>

KeptAsIs(content, s, v) ==
    LET prefix == SubSeq(content, 1, s.charCount)
    IN  /\ prefix[1] \notin WhiteSpace \cup {"."}
        /\ \A i \in 1..Len(prefix) : prefix[i] \in WhiteSpace => prefix[i] = " "
        /\ \A i \in 1..(Len(prefix) - 1) : ~(prefix[i] = " " /\ prefix[i + 1] = " ")
        /\ (v = "part_001" /\ ~s.includeEmojis) =>
              \A i \in 1..Len(prefix) :
                  prefix[i] \notin EmojiUnit \cup HighSurrogate \cup LowSurrogate

----------------------------------------------------------------------------
(* Claims about the rename coordinator.                                    *)

\* the renames renameFile has issued and still awaits
InFlight == {o \in BagToSet(ops) : o.pc = "rename"}

\* the document, if any, that holds the place a path names
HeldByOther(path, file) ==
    \E d \in Docs : d # file /\ vault[d].path = NormalizePath(path)

\* C1: renameFile never commits a rename of a document to a path that is
\* present in storage, held by another document.
C1_NeverOntoHeldPath ==
    \A o \in InFlight : ~HeldByOther(o.newPath, o.file)

\* the contents of all documents derive the same stem
SameStem ==
    \A d, e \in Docs : Derive(vault[d].content, settings, variant)
                          = Derive(vault[e].content, settings, variant)

\* C2: when the contents of the documents all derive the same stem, the
\* renames a batch issues go to pairwise distinct destination paths, none of
\* which is held by another document.
C2_BatchDistinct ==
    SameStem =>
        /\ \A j, k \in 1..Len(tempNewPaths) : j # k => tempNewPaths[j] # tempNewPaths[k]
        /\ \A o \in InFlight : o.batch # 0 => ~HeldByOther(o.newPath, o.file)

\* the candidates of the claim: C/S.md, then C/S (n).md for n = 2, 3, ...
Candidate(parent, stem, n) ==
    IF n = 1 THEN HostPath(parent, stem)
    ELSE HostPath(parent, stem \o <<" ", "(">> \o NumberToString(n) \o <<")">>)

\* a place is occupied when a file is there or a path reserved names it
Occupied(path) ==
    \/ \E d \in Docs : vault[d].path = path
    \/ \E k \in 1..Len(tempNewPaths) : NormalizePath(tempNewPaths[k]) = path

\* the renames this step issues: invocations that leave `await cachedRead`
\* with a rename to await
IssuedNow ==
    {o \in BagToSet(ops') : o.pc = "rename" /\ CopiesIn(o, ops') > CopiesIn(o, ops)}

\* C3: renameFile renames a document with derived stem S in container C to
\* C/S.md when that path is unoccupied and otherwise to C/S (n).md for the
\* smallest n >= 2 whose path is unoccupied.
C3_SmallestFreeSuffix ==
    [][\A o \in IssuedNow :
          LET parent == vault[o.file].parent
              stem   == Derive(vault[o.file].content, settings, variant)
          IN  \E n \in 1..(NDocs + Len(tempNewPaths) + 1) :
                 /\ NormalizePath(o.newPath) = Candidate(parent, stem, n)
                 /\ ~Occupied(Candidate(parent, stem, n))
                 /\ \A m \in 1..(n - 1) : Occupied(Candidate(parent, stem, m))]_vars

\* the invocations whose content read resolves in this step
ResumedNow ==
    {o \in BagToSet(ops) : o.pc = "read" /\ CopiesIn(o, ops') < CopiesIn(o, ops)}

\* C4: when the path the derived stem gives the document is the path it has,
\* renameFile issues no rename, does not count one and reserves nothing, in
\* any eligible container, the vault root included.
C4_UnchangedIsNoOp ==
    [][\A o \in ResumedNow :
          Candidate(vault[o.file].parent,
                    Derive(vault[o.file].content, settings, variant), 1)
              = vault[o.file].path
          => /\ IssuedNow = {}
             /\ tempNewPaths' = tempNewPaths
             /\ renamedFileCount' = renamedFileCount]_vars

\* C5: with a debounce interval, a run of notifications for one document
\* leads to exactly one content read, checkInterval after the last of them.
C5_OneAttemptAfterLastEdit ==
    settings.checkInterval > 0 =>
        \A d \in Docs : attempts[d] \in {<<>>, <<settings.checkInterval>>}

\* C6: at most one debounce timer is pending per document path.
C6_OneTimerPerPath ==
    \A t, u \in timers : t.armedFor = u.armedFor => t = u

\* the pending timers this step cancels: clearTimeout took them before they
\* were due
CancelledNow ==
    {t \in timers : t.left > 0 /\ ~\E u \in timers' : u.id = t.id}

\* C7: a notification for a different document never cancels or suppresses
\* the pending attempt of a document: a step cancels a timer only when it
\* is the notification of the document the timer was armed for (which
\* arms that document's next timer).
C7_OtherDocumentNeverCancels ==
    [][\A t \in CancelledNow :
          \E u \in timers' : u.id = notifs' /\ notifs' # notifs /\ u.file = t.file]_vars

----------------------------------------------------------------------------
(* Claims about front matter and headings.                                 *)

\* the stem derived from a working text: the steps after the front-matter
\* and heading steps
StemOf(working) == Fallback(BeforeFallback(working, settings, variant))

\* the lines after the first k lines
LinesAfter(ls, k) == SubSeq(ls, k + 1, Len(ls))

\* the closing delimiter lines of a content whose first line is a delimiter
ClosingLines(ls) == {k \in 2..Len(ls) : ls[k] = <<"-", "-", "-">>}

\* C14: with front-matter skipping on, for content whose first line is '---'
\* and that has a later line consisting solely of '---', the stem is the one
\* derived from the text after that closing line with leading white space
\* stripped, whatever the block contains.
C14_FrontMatterSkipped ==
    (probe.fn = "derive" /\ probe.done /\ settings.supportYAML
       /\ probe.lines[1] = <<"-", "-", "-">> /\ ClosingLines(probe.lines) # {}) =>
        LET k    == CHOOSE c \in ClosingLines(probe.lines) :
                        \A d \in ClosingLines(probe.lines) : c <= d
            rest == TrimStart(JoinLines(LinesAfter(probe.lines, k)))
        IN  probe.newFileName = StemOf(UseHeader(rest, settings))

\* C15: with front-matter skipping on, content that begins with a delimiter
\* line but has no closing delimiter line is left unchanged: the stem is the
\* one derived with front-matter skipping off.
C15_UnclosedFrontMatterKept ==
    (probe.fn = "derive" /\ probe.done /\ settings.supportYAML
       /\ probe.lines[1] = <<"-", "-", "-">> /\ ClosingLines(probe.lines) = {}) =>
        probe.newFileName = StemOf(UseHeader(probe.content, settings))

\* line starts with k number signs and a space
HasMarker(line, k) ==
    /\ Len(line) >= k + 1
    /\ \A i \in 1..k : line[i] = "#"
    /\ line[k + 1] = " "

\* C16: with heading extraction on, for content that begins with one to six
\* number signs and a space, then heading text, then a line break, the stem
\* is derived from the heading text alone; content that starts with a number
\* sign but not with such a marker is used in full.
C16_HeadingAlone ==
    (probe.fn = "derive" /\ probe.done /\ settings.useHeader
       /\ probe.lines[1] # <<>> /\ probe.lines[1][1] = "#") =>
        LET first == probe.lines[1]
        IN  IF \E k \in 1..6 : HasMarker(first, k)
            THEN Len(probe.lines) >= 2 =>
                   LET k == CHOOSE j \in 1..6 : HasMarker(first, j)
                   IN  probe.newFileName = StemOf(SubSeq(first, k + 2, Len(first)))
            ELSE probe.newFileName = StemOf(probe.content)

\* '## b', a line break and a body: the stem is the heading text
C16_Witness ==
    /\ probe.fn = "derive" /\ probe.done /\ settings.useHeader
    /\ probe.lines = <<<<"#", "#", " ", "b">>, <<"a">>>>
    /\ probe.newFileName = <<"b">>

----------------------------------------------------------------------------
(* Claims about the batch.                                                 *)

\* the invocations of batch b that are suspended in the bag
InvocationsOf(b, bag) == {o \in BagToSet(bag) : o.batch = b}

\* the renames the host completes in this step
CommittedNow ==
    {o \in InFlight : CopiesIn(o, ops') < CopiesIn(o, ops) /\ vault' # vault}

\* C17: when the rename of one document of a batch has failed, the
\* invocations of the other documents of that batch stay in progress until
\* each settles on its own, and a rename of theirs that storage accepts is
\* committed and counted.
C17_SiblingsComplete ==
    [][/\ \A b \in 1..Len(batches') :
             batches'[b].failed =>
                 Cardinality(InvocationsOf(b, ops')) = batches'[b].pending
       /\ \A o \in CommittedNow :
             (o.batch # 0 /\ batches[o.batch].failed) =>
                 /\ vault'[o.file].path = NormalizePath(o.newPath)
                 /\ renamedFileCount' = renamedFileCount + 1
                 /\ batches'[o.batch].renamed = batches[o.batch].renamed + 1]_vars

\* a batch of two renames is over: one was refused, the other was committed
C17_Witness ==
    /\ Len(batches) = 1
    /\ batches[1].attempted = 2
    /\ batches[1].failed
    /\ batches[1].pending = 0
    /\ batches[1].renamed = 1
    /\ renamedFileCount = 1

\* C18: every batch that was started reports its summary once all its
\* renames have settled, also when a rename failed.
C18_SummaryReported ==
    \A b \in 1..Len(batches) : batches[b].pending = 0 => batches[b].summary # -1

\* C19: the renamed count a batch summary reports is the number of documents
\* of that batch whose rename succeeded, and never exceeds the attempted
\* count.
C19_SummaryCountsBatch ==
    \A b \in 1..Len(batches) :
        batches[b].summary # -1 =>
            /\ batches[b].summary = batches[b].renamed
            /\ batches[b].summary <= batches[b].attempted

\* a batch is in progress: some renameFile call of it has not settled
BatchInProgress == \E b \in 1..Len(batches) : batches[b].pending > 0

\* C20: the reserved-path set holds only paths claimed by the batch in
\* progress: whenever no batch is in progress it is empty, so a rename
\* outside a batch adds nothing to it and meets no reservation.
C20_ReservedOnlyInBatch ==
    ~BatchInProgress => tempNewPaths = <<>>

\* C21: a batch summary is reported only after the operation of every
\* document of that batch has completed; none is reported while an
\* invocation of that batch is still suspended.
C21_SummaryAfterAll ==
    \A b \in 1..Len(batches) :
        batches[b].summary # -1 =>
            /\ InvocationsOf(b, ops) = {}
            /\ batches[b].pending = 0

\* the summary of a batch of two documents that renamed one of them
C21_Witness ==
    /\ Len(batches) = 1
    /\ batches[1].attempted = 2
    /\ batches[1].renamed = 1
    /\ batches[1].summary = 1

\* the invocations this step starts with noDelay true
ImmediateNow ==
    {o \in BagToSet(ops') : o.noDelay /\ o.pc = "read"
                                /\ CopiesIn(o, ops') > CopiesIn(o, ops)}

\* C22: a renameFile call with noDelay true arms no timer, cancels none and
\* leaves onTimeout, timeout and previousFile as they are; it goes straight
\* to the content read.
C22_ImmediateLeavesDebounce ==
    [][ImmediateNow # {} =>
          /\ timers' = timers
          /\ onTimeout' = onTimeout
          /\ timeout' = timeout
          /\ previousFile' = previousFile]_vars

\* a batch invocation reads a document whose debounce timer is still pending
C22_Witness ==
    \E o \in BagToSet(ops) :
        /\ o.noDelay /\ o.pc = "read" /\ o.batch # 0
        /\ \E t \in timers : t.file = o.file /\ t.left > 0

\* C23: after any sequence of edits of the character-count field from the
\* default, settings.charCount is within [10, 100]; an edit whose text is no
\* number or a number outside the range keeps the prior value and saves
\* nothing.
C23_CharCountInRange ==
    /\ settings.charCount \in 10..100
    /\ (probe.fn = "charCount" /\ probe.saved) =>
            /\ ~Number(probe.value).nan
            /\ Number(probe.value).num \in 10..100
            /\ settings.charCount = Number(probe.value).num

\* 101 was typed after 100 had been accepted: the field shows 101, the
\* setting is still 100 and nothing was saved
C23_Witness ==
    /\ probe.fn = "charCount"
    /\ probe.value = <<"1", "0", "1">>
    /\ ~probe.saved
    /\ settings.charCount = 100

\* C24: in a batch the winning path is in tempNewPaths when the storage
\* rename is issued, and, the probe and the insert being one step, no two
\* operations of one batch reserve the same path.
C24_AtomicCheckAndInsert ==
    [][/\ \A o \in IssuedNow :
             o.batch # 0 => \E k \in 1..Len(tempNewPaths') : tempNewPaths'[k] = o.newPath
       /\ \A o, q \in BagToSet(ops') :
             (o.pc = "rename" /\ q.pc = "rename" /\ o.batch # 0
                 /\ o.batch = q.batch /\ o.file # q.file) => o.newPath # q.newPath]_vars

\* the renames that fail in this step: the invocation ends and its document
\* is not at the destination
FailedNow ==
    {o \in InFlight : /\ CopiesIn(o, ops') < CopiesIn(o, ops)
                      /\ vault'[o.file].path # NormalizePath(o.newPath)}

\* C25: a failed storage rename ends its invocation with the failure (a
\* batch it belongs to is marked failed), starts no other invocation, moves
\* no file, leaves renamedFileCount as it is and leaves the reserved paths in
\* tempNewPaths; tempNewPaths loses entries only when a batch starts.
C25_FailureKeepsReservation ==
    [][/\ \A o \in FailedNow :
             /\ ops' = ops (-) SetToBag({o})
             /\ vault' = vault
             /\ renamedFileCount' = renamedFileCount
             /\ tempNewPaths' = tempNewPaths
             /\ timers' = timers
             /\ o.batch # 0 => (batches'[o.batch].failed /\ batches'[o.batch].summary = -1)
       /\ (\E k \in 1..Len(tempNewPaths) :
               \A j \in 1..Len(tempNewPaths') : tempNewPaths'[j] # tempNewPaths[k])
             => Len(batches') > Len(batches)]_vars

\* the rename of a batch has failed and its reservation is still in
\* tempNewPaths, no invocation of the batch being left
C25_Witness ==
    /\ Len(batches) = 1
    /\ batches[1].failed
    /\ batches[1].attempted = 2
    /\ InvocationsOf(1, ops) = {}
    /\ renamedFileCount = 0
    /\ Len(tempNewPaths) = 2

\* the document is not in a watched container (no container is watched when
\* the watch setting is empty)
NotWatched(d) == vault[d].parent \notin Watched(settings, variant)

\* C26: renameFile on a document that is not eligible has no effect: no
\* timer and no invocation ever concerns such a document, previousFile never
\* names it, a timer is cancelled only in a step that arms one, and a
\* notification that arms no timer and starts no read leaves onTimeout,
\* previousFile, timeout, tempNewPaths and renamedFileCount unchanged.
C26_IneligibleNoEffect ==
    [][/\ \A t \in timers' : ~NotWatched(t.file)
       /\ \A o \in BagToSet(ops') : ~NotWatched(o.file)
       /\ \A d \in Docs : NotWatched(d) => previousFile' # vault'[d].path
       /\ (\E t \in timers : t.left > 0 /\ \A u \in timers' : u.id # t.id)
             => \E u \in timers' : \A t \in timers : u.id # t.id
       /\ (notifs' # notifs /\ timers' = timers /\ ops' = ops)
             => /\ onTimeout' = onTimeout
                /\ previousFile' = previousFile
                /\ timeout' = timeout
                /\ tempNewPaths' = tempNewPaths
                /\ renamedFileCount' = renamedFileCount]_vars

\* the note in "g" was modified while "f" is watched: nothing is armed or
\* started and the debounce state is as the plugin's load left it
C26_Witness ==
    /\ settings.targetFolder = <<"f">>
    /\ NotWatched(2)
    /\ notifs = 1
    /\ vault[2].content = <<"b">>
    /\ timers = {} /\ ops = EmptyBag
    /\ onTimeout /\ previousFile = Undefined
    /\ tempNewPaths = <<>> /\ renamedFileCount = 0

----------------------------------------------------------------------------
(* Claims about the scan of the working text.                              *)

\* the working text the front-matter and heading steps leave
WorkingText == UseHeader(SkipYAML(probe.content, settings), settings)

\* the working text has a line break within its first charCount characters
BreakInReach(w) == \E p \in 1..Len(w) : w[p] = "\n" /\ p <= settings.charCount

\* the characters before the first line break
FirstLine(w) ==
    LET p == CHOOSE q \in 1..Len(w) : w[q] = "\n" /\ \A j \in 1..(q - 1) : w[j] # "\n"
    IN  SubSeq(w, 1, p - 1)

\* the characters of a text that are not in the illegal set
KeptChars(t) == SelectSeq(t, LAMBDA c : c \notin ClaimIllegalSet)

\* a text the steps after the scan leave alone: it starts with neither white
\* space nor a dot, holds no white space but single blanks and, where emojis
\* are removed, no emoji
LeftAlone(t) ==
    /\ t # <<>>
    /\ t[1] \notin WhiteSpace \cup {"."}
    /\ \A i \in 1..Len(t) : t[i] \in WhiteSpace => t[i] = " "
    /\ \A i \in 1..(Len(t) - 1) : ~(t[i] = " " /\ t[i + 1] = " ")
    /\ (variant = "part_001" /\ ~settings.includeEmojis) =>
          \A i \in 1..Len(t) : t[i] \notin EmojiUnit \cup HighSurrogate \cup LowSurrogate

\* C27 as stated: with useFirstLine on and a line break within the first
\* charCount characters of the working text, the stem is made of characters
\* before the first line break, trailing white space trimmed, with the
\* ellipsis marker appended; no character after the line break reaches it.
C27_FirstLineThenEllipsis ==
    (probe.fn = "derive" /\ probe.done /\ settings.useFirstLine
       /\ BreakInReach(WorkingText)) =>
        /\ probe.newFileName = StemOf(FirstLine(WorkingText) \o <<"\n">>)
        /\ EndsWithEllipsis(probe.newFileName)
        /\ \A i \in 1..(Len(probe.newFileName) - 3) :
               \E j \in 1..Len(FirstLine(WorkingText)) :
                   FirstLine(WorkingText)[j] = probe.newFileName[i]
        /\ Len(probe.newFileName) > 3 =>
               probe.newFileName[Len(probe.newFileName) - 3] \notin WhiteSpace

\* C27, amended: no character after the first line break reaches the stem,
\* and when the kept characters of the first line are left alone by the steps
\* after the scan the stem is those characters, trailing white space trimmed,
\* followed by '...'.
C27_FirstLineThenEllipsisWhenKept ==
    (probe.fn = "derive" /\ probe.done /\ settings.useFirstLine
       /\ BreakInReach(WorkingText)) =>
        /\ probe.newFileName = StemOf(FirstLine(WorkingText) \o <<"\n">>)
        /\ LeftAlone(KeptChars(FirstLine(WorkingText))) =>
               probe.newFileName
                 = WithoutTrailingBlanks(KeptChars(FirstLine(WorkingText)))
                     \o <<".", ".", ".">>

\* 'a', a line break and more text: the stem is 'a...'
C27_Witness ==
    /\ probe.fn = "derive" /\ probe.done /\ settings.useFirstLine
    /\ probe.content = <<"a", "\n", "a">>
    /\ probe.newFileName = <<"a", ".", ".", ".">>

\* C28: for every content and configuration the derived stem is
\* white-space-normalized: it neither starts nor ends with white space, holds
\* no two adjacent white-space characters, and its only white-space character
\* is the blank.
C28_WhitespaceNormalized ==
    (probe.fn = "derive" /\ probe.done) =>
        LET stem == probe.newFileName
        IN  /\ stem # <<>>
            /\ stem[1] \notin WhiteSpace
            /\ stem[Len(stem)] \notin WhiteSpace
            /\ \A i \in 1..Len(stem) : stem[i] \in WhiteSpace => stem[i] = " "
            /\ \A i \in 1..(Len(stem) - 1) :
                   ~(stem[i] \in WhiteSpace /\ stem[i + 1] \in WhiteSpace)

RECURSIVE KeptCountScan(_, _, _)
\* the scan the claim describes: the threshold is compared with the number
\* of characters kept so far, not with the position in the working text
KeptCountScan(w, i, kept) ==
    IF i > Len(w) THEN kept
    ELSE IF Len(kept) >= settings.charCount THEN WithoutTrailingBlanks(kept) \o <<".", ".", ".">>
    ELSE IF w[i] = "\n" /\ settings.useFirstLine
         THEN WithoutTrailingBlanks(kept) \o <<".", ".", ".">>
    ELSE IF w[i] \in ClaimIllegalSet THEN KeptCountScan(w, i + 1, kept)
    ELSE KeptCountScan(w, i + 1, kept \o <<w[i]>>)

\* the steps after the scan, on the buffer the scan leaves
AfterScan(scanned) ==
    Fallback(RemoveLeadingDots(CollapseWhiteSpace(Trim(RemoveEmojis(scanned, settings, variant)))))

\* C29: the truncation threshold counts the characters kept: characters of
\* the illegal set that the scan rejects do not count toward charCount, so
\* the stem is the one a scan gives that stops once charCount characters
\* have been kept.
C29_ThresholdCountsKept ==
    (probe.fn = "derive" /\ probe.done) =>
        probe.newFileName = AfterScan(KeptCountScan(WorkingText, 1, <<>>))

\* the text the front-matter step leaves
AfterFrontMatter == SkipYAML(probe.content, settings)

\* C30: with useHeader on, when the heading line is the whole content (no
\* line break follows it), the stem is derived from the text after the
\* marker, as it is for the same heading followed by a line break and a
\* body: the marker does not count toward charCount.
C30_HeadingWithoutBreak ==
    (probe.fn = "derive" /\ probe.done /\ settings.useHeader
       /\ (\E k \in 1..6 : HasMarker(AfterFrontMatter, k))
       /\ \A i \in 1..Len(AfterFrontMatter) : AfterFrontMatter[i] # "\n") =>
        LET k == CHOOSE j \in 1..6 : HasMarker(AfterFrontMatter, j)
            heading == SubSeq(AfterFrontMatter, k + 2, Len(AfterFrontMatter))
        IN  /\ probe.newFileName = StemOf(heading)
            /\ probe.newFileName
                 = Derive(AfterFrontMatter \o <<"\n", "b">>, settings, variant)

----------------------------------------------------------------------------
(* Claims about the delimiter lines of front matter.                       *)

RECURSIVE SplitLines(_)
\* the lines of a text: the runs between its line breaks
SplitLines(t) ==
    IF \A i \in 1..Len(t) : t[i] # "\n" THEN <<t>>
    ELSE LET p == CHOOSE q \in 1..Len(t) : t[q] = "\n" /\ \A j \in 1..(q - 1) : t[j] # "\n"
         IN  <<SubSeq(t, 1, p - 1)>> \o SplitLines(SubSeq(t, p + 1, Len(t)))

\* a line that consists solely of three hyphens
DelimiterLine == <<"-", "-", "-">>

\* the content has front matter as the claim defines it: its first line is
\* a delimiter line and a later line is one too
HasFrontMatter(content) ==
    LET ls == SplitLines(content)
    IN  /\ ls[1] = DelimiterLine
        /\ \E k \in 2..Len(ls) : ls[k] = DelimiterLine

\* C31: with supportYAML on, content that begins with three hyphens but has
\* no front matter (its first line is not exactly '---', or no later line
\* consists solely of '---') gets the stem it gets with supportYAML off.
C31_OnlyDelimiterLines ==
    (probe.fn = "derive" /\ probe.done /\ settings.supportYAML
       /\ StartsWith(probe.content, DelimiterLine)
       /\ ~HasFrontMatter(probe.content)) =>
        probe.newFileName = StemOf(UseHeader(probe.content, settings))

----------------------------------------------------------------------------
(* Claims about the duplicate checker and about renames in flight.         *)

\* the paths that are occupied by a file or reserved in tempNewPaths
OccupiedOrReserved ==
    {vault[d].path : d \in Docs} \cup {tempNewPaths[k] : k \in 1..Len(tempNewPaths)}

\* C32: the search for a free suffix terminates: it makes at most (number of
\* occupied and reserved paths + 1) probes, it can always go on until it is
\* done, and it ends with an unoccupied, unreserved path or without a rename.
C32_SearchTerminates ==
    (probe.fn = "duplicateChecker") =>
        /\ probe.counter <= Cardinality(OccupiedOrReserved) + 1
        /\ probe.counter < MaxCounter
        /\ probe.done =>
              /\ probe.result = DuplicateLoop(probe.file, probe.newFileName, 1,
                                              vault, tempNewPaths, variant)
              /\ \/ probe.result = NoRename /\ vault[probe.file].path = probe.newPath
                 \/ /\ probe.result = probe.newPath
                    /\ ~FileExists(probe.result, vault)
                    /\ ~Reserved(probe.result, tempNewPaths)

\* a.md and 'a (2).md' are taken, 'a (3).md' is reserved: the fourth probe
\* finds 'a (4).md' free
C32_Witness ==
    /\ probe.fn = "duplicateChecker"
    /\ probe.done
    /\ probe.counter = 4
    /\ probe.result # NoRename

\* C33: at no time are storage renames of two distinct documents in flight
\* to the same destination path.
C33_NoSharedDestination ==
    \A o, q \in InFlight :
        o.file # q.file => NormalizePath(o.newPath) # NormalizePath(q.newPath)

----------------------------------------------------------------------------
(* Claims about the debounce flag and the timers of a renamed document.    *)

\* C34: with checkInterval > 0 the flag onTimeout is true whenever no timer
\* callback is executing, and a change notification starts no content read:
\* it arms a timer and returns.
C34_FlagRearmed ==
    [][settings.checkInterval > 0 =>
          /\ onTimeout'
          /\ notifs' # notifs => ops' = ops]_vars

\* C35: at any time at most one pending debounce timer refers to a given
\* document, also after a rename of the document has completed while a timer
\* for it was pending.
C35_OneTimerPerDocument ==
    \A t, u \in timers : t.file = u.file => t = u

\* another document holds the path, or its rename to the path is in flight
TakenByOther(path, d) ==
    \/ \E e \in Docs : e # d /\ vault[e].path = path
    \/ \E q \in InFlight : q.file # d /\ NormalizePath(q.newPath) = path

\* the document has the path renameFile chooses for its content: the bare
\* stem, or the stem with the smallest counter whose lower candidates are
\* all taken by other documents
HasChosenPath(d) ==
    LET stem == Derive(vault[d].content, settings, variant)
    IN  \E n \in 1..NDocs :
            /\ vault[d].path = Candidate(vault[d].parent, stem, n)
            /\ \A k \in 1..(n - 1) :
                   TakenByOther(Candidate(vault[d].parent, stem, k), d)

\* C36: the path renameFile chooses is a fixed point: a renameFile call on a
\* document that already has the path chosen for its content, bare or with a
\* '(n)' suffix, issues no rename, in batch and non-batch mode and whatever
\* tempNewPaths holds.
C36_ChosenPathIsFixedPoint ==
    [][\A o \in ResumedNow : HasChosenPath(o.file) => IssuedNow = {}]_vars

====
